---- MODULE Spec2Model ----
(***************************************************************************)
(* Workspace / project membership model of the WooWoo analyzer             *)
(* (src/src/WooWooAnalyzer.cpp, src/src/project/WooWooProject.cpp).        *)
(*                                                                         *)
(* A path is a sequence of components; an absolute path starts with the    *)
(* root directory component "/".  <<>> is the empty path.  All paths that  *)
(* occur are in canonical form, for which fs::path::generic_string() and   *)
(* the construction of an fs::path from a string keep the components, so   *)
(* map keys (std::string) and document paths (fs::path) are both written   *)
(* as component sequences.                                                 *)
(***************************************************************************)
EXTENDS Integers, Sequences, FiniteSets, TLC

VARIABLES
    markers,            \* filesystem: the directories that contain a file named "Woofile"
    files,              \* filesystem: the regular files on disk
    workspaceRootPath,  \* WooWooAnalyzer::workspaceRootPath
    projects,           \* WooWooAnalyzer::projects, as a sequence in iteration order
    heap,               \* the live DialectedWooWooDocument objects: id -> [documentPath, source]
    loaded,             \* number of loadWorkspace calls so far
    nEvents,            \* number of lifecycle events so far
    last                \* the last call made by the client: its arguments, and what
                        \* getDocument found at its paths when it was made

vars == <<markers, files, workspaceRootPath, projects, heap, loaded, nEvents, last>>

----------------------------------------------------------------------------
(* The universe of inputs. *)

RootDir == <<"/">>
W       == <<"/", "w">>
P1      == <<"/", "w", "p1">>
P2      == <<"/", "w", "p2">>
X       == <<"/", "x">>
Q       == <<"/", "w", "p1", "q">>
Missing == <<"/", "missing">>

\* The directories that exist on disk.
Directories == {RootDir, W, P1, P2, X, Q}

\* The sets of directories holding a marker file: no marker, one project, two sibling projects, a marker in the
\* root with one and with two nested markers, and a marker outside the root.
MarkerSets == { {}, {P1}, {P1, P2}, {W, P1}, {W, P1, P2}, {P1, X} }

\* The file names with the source extension ".woo"; every other name lacks it.
WooNames == {"a.woo"}

\* The paths that events name.
EventPaths ==
    { W \o <<"a.woo">>, W \o <<"a.txt">>,
      P1 \o <<"a.woo">>, P2 \o <<"a.woo">>, X \o <<"a.woo">> }

\* The regular files on disk when the workspace is loaded.
DiskFileSets ==
    { { W \o <<"a.woo">>, P1 \o <<"a.woo">>, P2 \o <<"a.woo">>, W \o <<"a.txt">> } }

\* Source texts: the text read from disk and the texts sent by edits.
DiskSource == "disk"
Sources    == {"s1"}

\* The number of lifecycle events of a run.
MaxEvents == 2

\* std::nullopt (no folder, no result) and nullptr.
NoFolder == <<"nullopt">>
Null     == 0

Uri(path) == <<"file:">> \o path

WorkspaceUris == { Uri(W) }

\* The lists of pairs of a renameFiles call with several pairs, and the number of
\* such calls in a run.
MaxBatch == 2
MaxBatchEvents == 1
BatchPairs ==
    { <<Uri(P1 \o <<"a.woo">>), Uri(X \o <<"a.woo">>)>>,
      <<Uri(X \o <<"a.woo">>), Uri(P1 \o <<"a.woo">>)>>,
      <<Uri(P1 \o <<"a.woo">>), Uri(W \o <<"a.txt">>)>>,
      <<Uri(W \o <<"a.txt">>), Uri(X \o <<"a.woo">>)>> }
Batches == UNION { [1..n -> BatchPairs] : n \in 0..MaxBatch }

\* Workspace roots for the boundary search: the filesystem root, a directory below
\* it, a deeper directory, and a directory that does not exist; with the marker
\* sets and the paths the search is asked about.
RootUris == { Uri(RootDir), Uri(W), Uri(Q), Uri(Missing) }
RootMarkerSets == SUBSET {RootDir, W, P1, X}
SearchPaths ==
    { RootDir \o <<"a.woo">>, W \o <<"a.woo">>, P1 \o <<"a.woo">>,
      Q \o <<"a.woo">>, X \o <<"a.woo">> }

----------------------------------------------------------------------------
(* Path helpers. *)

\* utils::uriToPathString: strips the scheme of a file URI.
uriToPathString(uri) ==
    IF uri # <<>> /\ Head(uri) = "file:" THEN Tail(uri) ELSE uri

\* fs::path::parent_path: the root directory and the empty path are their own parent.
parent_path(p) == IF Len(p) <= 1 THEN p ELSE SubSeq(p, 1, Len(p) - 1)

\* fs::path::filename
filename(p) == IF Len(p) <= 1 THEN "" ELSE p[Len(p)]

\* utils::endsWith(path, ".woo") and fs::path::extension() == ".woo"
endsWithWoo(p) == filename(p) \in WooNames

\* dir is a (proper or improper) prefix of p: p is reached by recursive iteration of dir.
IsUnder(p, dir) == Len(p) > Len(dir) /\ SubSeq(p, 1, Len(dir)) = dir

----------------------------------------------------------------------------
(* Small utilities on functions and sets. *)

\* std::map / std::unordered_map erase and insert-or-assign.
MapErase(m, k) == [x \in DOMAIN m \ {k} |-> m[x]]
MapPut(m, k, v) == [x \in DOMAIN m \cup {k} |-> IF x = k THEN v ELSE m[x]]
EmptyMap == [x \in {} |-> Null]

\* An enumeration of a finite set, in a fixed order.
RECURSIVE SetToSeq(_)
SetToSeq(S) ==
    IF S = {} THEN <<>>
    ELSE LET x == CHOOSE y \in S : TRUE IN <<x>> \o SetToSeq(S \ {x})

\* The orders in which n objects can be iterated.
Perms(n) == {f \in [1..n -> 1..n] : \A i, j \in 1..n : f[i] = f[j] => i = j}

\* The documents some project's map refers to (the shared_ptr owners at rest).
Referenced(projs) ==
    UNION { {projs[i].documents[k] : k \in DOMAIN projs[i].documents} : i \in 1..Len(projs) }

\* A document is destroyed when the last shared_ptr to it goes away.
Collect(S) ==
    [S EXCEPT !.heap = [d \in DOMAIN S.heap \cap Referenced(S.projects) |-> S.heap[d]]]

\* The address of a newly allocated document.
FreshDoc(hp) == CHOOSE d \in 1..(Cardinality(DOMAIN hp) + 1) : d \notin DOMAIN hp

----------------------------------------------------------------------------
(* WooWooProject.  S is the pair of the project sequence and the heap;     *)
(* i is the position of the project in S.projects.                         *)

\* WooWooProject::loadDocument
loadDocument(S, i, documentPath) ==
    LET d == FreshDoc(S.heap) IN
    [S EXCEPT !.projects[i].documents = MapPut(@, documentPath, d),
              !.heap = MapPut(@, d, [documentPath |-> documentPath, source |-> DiskSource])]

\* WooWooProject::addDocument
addDocument(S, i, document) ==
    [S EXCEPT !.projects[i].documents = MapPut(@, S.heap[document].documentPath, document)]

\* WooWooProject::getDocument(const std::string &)
P_getDocument(proj, docPath) ==
    IF docPath \in DOMAIN proj.documents THEN proj.documents[docPath] ELSE Null

\* WooWooProject::getDocument(const WooWooDocument *) and getDocumentShared:
\* the entries whose document has the same path as the given one.  The scan
\* returns the first of them in the iteration order of the map.
P_matchingDocuments(S, i, document) ==
    { S.projects[i].documents[k] : k \in
        {x \in DOMAIN S.projects[i].documents :
            S.heap[S.projects[i].documents[x]].documentPath = S.heap[document].documentPath} }

\* WooWooProject::deleteDocument, where key is the value read from document->documentPath
P_deleteDocument(S, i, key) ==
    [S EXCEPT !.projects[i].documents = MapErase(@, key)]

\* WooWooProject::WooWooProject(const fs::path &): loads every source file under the folder
RECURSIVE loadAll(_, _, _)
loadAll(S, i, paths) ==
    IF paths = <<>> THEN S
    ELSE loadAll(loadDocument(S, i, Head(paths)), i, Tail(paths))

NewProject(S, projectFolderPath, fileSet) ==
    LET S1 == [S EXCEPT !.projects = Append(@, [projectFolderPath |-> projectFolderPath,
                                                  documents |-> EmptyMap])]
        found == {f \in fileSet : IsUnder(f, projectFolderPath) /\ endsWithWoo(f)}
    IN loadAll(S1, Len(S1.projects), SetToSeq(found))

\* WooWooProject::WooWooProject(): the project of unassigned documents
NewNullProject(S) ==
    [S EXCEPT !.projects = Append(@, [projectFolderPath |-> NoFolder, documents |-> EmptyMap])]

----------------------------------------------------------------------------
(* WooWooAnalyzer: lookups. *)

\* WooWooAnalyzer::findProjectFolder: the upward search for a Woofile
RECURSIVE searchUp(_)
searchUp(parent) ==
    IF parent = parent_path(workspaceRootPath) \/ parent = parent_path(parent)
    THEN NoFolder
    ELSE IF parent \in markers THEN parent
    ELSE searchUp(parent_path(parent))

findProjectFolder(uri) == searchUp(parent_path(uriToPathString(uri)))

\* The directories in which the loop of findProjectFolder tests for a Woofile.
RECURSIVE searchedFrom(_)
searchedFrom(parent) ==
    IF parent = parent_path(workspaceRootPath) \/ parent = parent_path(parent)
    THEN {}
    ELSE IF parent \in markers THEN {parent}
    ELSE {parent} \cup searchedFrom(parent_path(parent))

searchedDirs(uri) == searchedFrom(parent_path(uriToPathString(uri)))

\* WooWooAnalyzer::getDocument: the first project, in iteration order, that has the key
RECURSIVE getDocumentFrom(_, _, _)
getDocumentFrom(S, pathToDoc, i) ==
    IF i > Len(S.projects) THEN Null
    ELSE IF P_getDocument(S.projects[i], pathToDoc) # Null
         THEN P_getDocument(S.projects[i], pathToDoc)
         ELSE getDocumentFrom(S, pathToDoc, i + 1)

getDocument(S, pathToDoc) == getDocumentFrom(S, pathToDoc, 1)

\* WooWooAnalyzer::getDocumentByUri
getDocumentByUri(S, docUri) == getDocument(S, uriToPathString(docUri))

\* WooWooAnalyzer::getProjectByDocument: the first project holding a document of that path
getProjectByDocument(S, document) ==
    LET hits == {i \in 1..Len(S.projects) : P_matchingDocuments(S, i, document) # {}}
    IN IF hits = {} THEN Null ELSE CHOOSE i \in hits : \A j \in hits : i <= j

\* WooWooAnalyzer::getProject: the first project with that folder (NoFolder: the null project)
getProject(S, path) ==
    LET hits == {i \in 1..Len(S.projects) : S.projects[i].projectFolderPath = path}
    IN IF hits = {} THEN Null ELSE CHOOSE i \in hits : \A j \in hits : i <= j

----------------------------------------------------------------------------
(* WooWooAnalyzer: the handlers.  Each gives the set of states the call can *)
(* end in.                                                                  *)

\* openDocument as it would be if it loaded the path whether or not it is tracked.
openDocument_reloads(S, uri) ==
    LET docPath == uriToPathString(uri) IN
    LET projectFolder == findProjectFolder(uri)
        found   == getProject(S, projectFolder)
        project == IF found = Null THEN getProject(S, NoFolder) ELSE found
    IN IF project # Null
       THEN { Collect(loadDocument(S, project, docPath)) }
       ELSE { S }

\* WooWooAnalyzer::openDocument
openDocument(S, uri) ==
    LET docPath == uriToPathString(uri) IN
    IF getDocument(S, docPath) # Null THEN { S }
    ELSE LET projectFolder == findProjectFolder(uri)
             found   == getProject(S, projectFolder)
             project == IF found = Null THEN getProject(S, NoFolder) ELSE found
         IN IF project # Null
            THEN { Collect(loadDocument(S, project, docPath)) }
            ELSE { S }

\* handleDocumentChange as it would be if it replaced the Document by a new one
\* holding the new text.
handleDocumentChange_replaces(S, uri, source) ==
    LET docPath  == uriToPathString(uri)
        document == getDocument(S, docPath)
    IN IF document # Null
       THEN LET i == getProjectByDocument(S, document)
                T == loadDocument(S, i, docPath)
            IN { Collect([T EXCEPT !.heap[T.projects[i].documents[docPath]].source = source]) }
       ELSE { S }

\* handleDocumentChange as it would be if an edit of an unknown path opened it.
handleDocumentChange_opens(S, uri, source) ==
    LET docPath  == uriToPathString(uri)
        document == getDocument(S, docPath)
    IN IF document # Null
       THEN { [S EXCEPT !.heap[document].source = source] }
       ELSE openDocument(S, uri)

\* WooWooAnalyzer::handleDocumentChange
handleDocumentChange(S, uri, source) ==
    LET docPath  == uriToPathString(uri)
        document == getDocument(S, docPath)
    IN IF document # Null
       THEN { [S EXCEPT !.heap[document].source = source] }
       ELSE { S }

\* WooWooAnalyzer::deleteDocument(DialectedWooWooDocument *): every project is asked to
\* erase the key document->documentPath.  Once the last map entry of the document is
\* erased the document is destroyed, and the later reads of document->documentPath
\* are reads of freed memory: they give the bytes that were there (lastPath) or
\* bytes that match no key.
RECURSIVE deleteFrom(_, _, _, _)
deleteFrom(S, document, lastPath, i) ==
    IF i > Len(S.projects) THEN { S }
    ELSE IF document \in DOMAIN S.heap
         THEN deleteFrom(Collect(P_deleteDocument(S, i, S.heap[document].documentPath)),
                         document, S.heap[document].documentPath, i + 1)
         ELSE deleteFrom(P_deleteDocument(S, i, lastPath), document, lastPath, i + 1)
              \cup deleteFrom(S, document, lastPath, i + 1)

deleteDocument(S, document) ==
    IF document = Null THEN { S }
    ELSE { Collect(T) : T \in deleteFrom(S, document, S.heap[document].documentPath, 1) }

\* WooWooAnalyzer::deleteDocument(const std::string &)
deleteDocumentByUri(S, uri) == deleteDocument(S, getDocumentByUri(S, uri))

\* WooWooAnalyzer::didDeleteFiles
RECURSIVE didDeleteFiles(_, _)
didDeleteFiles(S, uris) ==
    IF uris = <<>> THEN { S }
    ELSE UNION { didDeleteFiles(T, Tail(uris)) :
                    T \in deleteDocument(S, getDocumentByUri(S, Head(uris))) }

\* The body of the loop as it would be if the pair were recorded before the lookup
\* of the document, so that skipped pairs are in renamedDocuments too.
renamePair_recordsSkipped(S, oldUri, newUri) ==
    LET oldPath == uriToPathString(oldUri)
        newPath == uriToPathString(newUri)
    IN
    IF endsWithWoo(oldPath) /\ endsWithWoo(newPath)
    THEN LET document   == getDocument(S, oldPath)
             oldProject == IF document = Null THEN Null ELSE getProjectByDocument(S, document)
         IN
         IF document = Null \/ oldProject = Null
         THEN { [S |-> S, renamed |-> << <<oldPath, newPath>> >>] }
         ELSE LET newProjectFolder == findProjectFolder(newUri)
                  found      == getProject(S, newProjectFolder)
                  newProject == IF found = Null THEN getProject(S, NoFolder) ELSE found
              IN
              IF newProject = Null
              THEN { [S |-> S, renamed |-> << <<oldPath, newPath>> >>] }
              ELSE { [S |-> LET S1 == [S EXCEPT !.heap[document].documentPath = newPath]
                                S2 == P_deleteDocument(S1, oldProject,
                                                       S1.heap[document].documentPath)
                            IN Collect(addDocument(S2, newProject, documentShared)),
                      renamed |-> << <<oldPath, newPath>> >>]
                     : documentShared \in P_matchingDocuments(S, oldProject, document) }
    ELSE IF endsWithWoo(oldPath)
    THEN { [S |-> T, renamed |-> <<>>] : T \in deleteDocumentByUri(S, oldPath) }
    ELSE { [S |-> S, renamed |-> <<>>] }

\* WooWooAnalyzer::renameFiles, the body of the loop for one pair.  The result is
\* the state after the pair and the pairs appended to renamedDocuments.
renamePair(S, oldUri, newUri) ==
    LET oldPath == uriToPathString(oldUri)
        newPath == uriToPathString(newUri)
    IN
    IF endsWithWoo(oldPath) /\ endsWithWoo(newPath)
    THEN LET document   == getDocument(S, oldPath)
             oldProject == IF document = Null THEN Null ELSE getProjectByDocument(S, document)
         IN
         IF document = Null \/ oldProject = Null
         THEN { [S |-> S, renamed |-> <<>>] }
         ELSE LET newProjectFolder == findProjectFolder(newUri)
                  found      == getProject(S, newProjectFolder)
                  newProject == IF found = Null THEN getProject(S, NoFolder) ELSE found
              IN
              IF newProject = Null
              THEN { [S |-> S, renamed |-> << <<oldPath, newPath>> >>] }
              ELSE { [S |-> LET S1 == [S EXCEPT !.heap[document].documentPath = newPath]
                                S2 == P_deleteDocument(S1, oldProject,
                                                       S1.heap[document].documentPath)
                            IN Collect(addDocument(S2, newProject, documentShared)),
                      renamed |-> << <<oldPath, newPath>> >>]
                     : documentShared \in P_matchingDocuments(S, oldProject, document) }
    ELSE IF endsWithWoo(oldPath)
    THEN { [S |-> T, renamed |-> <<>>] : T \in deleteDocumentByUri(S, oldPath) }
    ELSE { [S |-> S, renamed |-> <<>>] }

\* WooWooAnalyzer::renameFiles: the loop over the pairs.  The result is the state
\* after the last pair and the list handed to Navigator::refactorDocumentReferences.
RECURSIVE renameFiles(_, _)
renameFiles(S, renames) ==
    IF renames = <<>> THEN { [S |-> S, renamed |-> <<>>] }
    ELSE UNION { { [S |-> rest.S, renamed |-> first.renamed \o rest.renamed]
                     : rest \in renameFiles(first.S, Tail(renames)) }
                 : first \in renamePair(S, Head(renames)[1], Head(renames)[2]) }

\* WooWooAnalyzer::renameFiles with its return statement: after the loop,
\* Navigator::refactorDocumentReferences is called with renamedDocuments.  calls is
\* the list of the calls made, each with its argument and the state it was made in.
renameFilesCall(S, renames) ==
    { [S |-> R.S,
       calls |-> << [renamedDocuments |-> R.renamed,
                     projects |-> R.S.projects, heap |-> R.S.heap] >>]
      : R \in renameFiles(S, renames) }

\* WooWooAnalyzer::loadWorkspace, up to the iteration order of the project set
RECURSIVE newProjects(_, _, _)
newProjects(S, folders, fileSet) ==
    IF folders = <<>> THEN S
    ELSE newProjects(NewProject(S, Head(folders), fileSet), Tail(folders), fileSet)

RECURSIVE loadUnassigned(_, _, _)
loadUnassigned(S, nullProject, wooFiles) ==
    IF wooFiles = <<>> THEN S
    ELSE LET partOfProject ==
                 \E i \in 1..Len(S.projects) : P_getDocument(S.projects[i], Head(wooFiles)) # Null
         IN loadUnassigned(IF partOfProject THEN S
                           ELSE loadDocument(S, nullProject, Head(wooFiles)),
                           nullProject, Tail(wooFiles))

\* WooWooAnalyzer::findProjectFolders
findProjectFolders(rootPath, markerSet) ==
    {d \in markerSet : d = rootPath \/ IsUnder(d, rootPath)}

\* WooWooAnalyzer::findAllWooFiles
findAllWooFiles(rootPath, fileSet) ==
    {f \in fileSet : IsUnder(f, rootPath) /\ endsWithWoo(f)}

loadWorkspace(S, rootPath, markerSet, fileSet) ==
    LET S1 == newProjects(S, SetToSeq(findProjectFolders(rootPath, markerSet)), fileSet)
        S2 == NewNullProject(S1)
    IN  Collect(loadUnassigned(S2, Len(S2.projects), SetToSeq(findAllWooFiles(rootPath, fileSet))))

\* The set of projects is ordered by the addresses of the projects, which the
\* allocator chooses: every iteration order is possible.
Reordered(S) ==
    { [S EXCEPT !.projects = [i \in 1..Len(S.projects) |-> S.projects[f[i]]]]
        : f \in Perms(Len(S.projects)) }

\* The orders two sequences of projects can be merged in.
RECURSIVE Interleavings(_, _)
Interleavings(s, t) ==
    IF s = <<>> THEN {t}
    ELSE IF t = <<>> THEN {s}
    ELSE {<<Head(s)>> \o r : r \in Interleavings(Tail(s), t)}
         \cup {<<Head(t)>> \o r : r \in Interleavings(s, Tail(t))}

\* The project set after n0 projects were there before the call: the projects
\* that were there keep their addresses, the new ones get any addresses.
Placed(S, n0) ==
    IF n0 = 0 THEN Reordered(S)
    ELSE LET old   == SubSeq(S.projects, 1, n0)
             fresh == SubSeq(S.projects, n0 + 1, Len(S.projects))
         IN { [S EXCEPT !.projects = ps] :
                ps \in UNION { Interleavings(old, [i \in 1..Len(fresh) |-> fresh[f[i]]])
                                 : f \in Perms(Len(fresh)) } }

----------------------------------------------------------------------------
(* The state machine. *)

State == [projects |-> projects, heap |-> heap]

Init ==
    /\ markers \in MarkerSets
    /\ files \in DiskFileSets
    /\ workspaceRootPath = <<>>
    /\ projects = <<>>
    /\ heap = EmptyMap
    /\ loaded = 0
    /\ nEvents = 0
    /\ last = [op |-> "none"]

Frame == UNCHANGED <<markers, files>>

\* A loadWorkspace call with one of the given URIs.  The recursive_directory_iterator
\* of findProjectFolders throws when the root is not a directory; the exception leaves
\* loadWorkspace after workspaceRootPath was assigned.
LoadWorkspaceFrom(workspaceUris) ==
    /\ \E workspaceUri \in workspaceUris :
         /\ workspaceRootPath' = uriToPathString(workspaceUri)
         /\ IF uriToPathString(workspaceUri) \in Directories
            THEN /\ \E T \in Placed(loadWorkspace(State, uriToPathString(workspaceUri),
                                                  markers, files), Len(projects)) :
                      /\ projects' = T.projects
                      /\ heap' = T.heap
                 /\ last' = [op |-> "loadWorkspace", uri |-> workspaceUri, threw |-> FALSE]
            ELSE /\ UNCHANGED <<projects, heap>>
                 /\ last' = [op |-> "loadWorkspace", uri |-> workspaceUri, threw |-> TRUE]
    /\ loaded' = loaded + 1
    /\ UNCHANGED nEvents
    /\ Frame

LoadWorkspace ==
    /\ loaded = 0
    /\ LoadWorkspaceFrom(WorkspaceUris)

OpenDocument ==
    /\ nEvents < MaxEvents
    /\ \E p \in EventPaths :
         /\ \E T \in openDocument(State, Uri(p)) :
              /\ projects' = T.projects
              /\ heap' = T.heap
         /\ last' = [op |-> "openDocument", uri |-> Uri(p), found |-> getDocument(State, p)]
    /\ nEvents' = nEvents + 1
    /\ UNCHANGED <<workspaceRootPath, loaded>>
    /\ Frame

DocumentDidChange ==
    /\ nEvents < MaxEvents
    /\ \E p \in EventPaths, source \in Sources :
         /\ \E T \in handleDocumentChange(State, Uri(p), source) :
              /\ projects' = T.projects
              /\ heap' = T.heap
         /\ last' = [op |-> "documentDidChange", uri |-> Uri(p), source |-> source,
                     found |-> getDocument(State, p)]
    /\ nEvents' = nEvents + 1
    /\ UNCHANGED <<workspaceRootPath, loaded>>
    /\ Frame

\* A renameFiles call with one of the given lists of pairs.
RenameFilesOf(batches) ==
    /\ \E renames \in batches :
         /\ \E R \in renameFilesCall(State, renames) :
              /\ projects' = R.S.projects
              /\ heap' = R.S.heap
              /\ last' = [op |-> "renameFiles", renames |-> renames,
                          found |-> [i \in 1..Len(renames) |->
                                       getDocument(State, uriToPathString(renames[i][1]))],
                          calls |-> R.calls]
    /\ nEvents' = nEvents + 1
    /\ UNCHANGED <<workspaceRootPath, loaded>>
    /\ Frame

RenameFiles ==
    /\ nEvents < MaxEvents
    /\ RenameFilesOf({ << <<Uri(a), Uri(b)>> >> : a \in EventPaths, b \in EventPaths })

DidDeleteFiles ==
    /\ nEvents < MaxEvents
    /\ \E p \in EventPaths :
         /\ \E T \in didDeleteFiles(State, <<Uri(p)>>) :
              /\ projects' = T.projects
              /\ heap' = T.heap
         /\ last' = [op |-> "didDeleteFiles", uris |-> <<Uri(p)>>,
                     found |-> <<getDocument(State, p)>>]
    /\ nEvents' = nEvents + 1
    /\ UNCHANGED <<workspaceRootPath, loaded>>
    /\ Frame

Next ==
    \/ LoadWorkspace
    \/ OpenDocument
    \/ DocumentDidChange
    \/ RenameFiles
    \/ DidDeleteFiles

Spec == Init /\ [][Next]_vars

(* renameFiles with lists of several pairs. *)

RenameFilesBatch ==
    /\ nEvents < MaxBatchEvents
    /\ RenameFilesOf(Batches)

NextBatch ==
    \/ LoadWorkspace
    \/ RenameFilesBatch

SpecBatch == Init /\ [][NextBatch]_vars

(* Workspaces at other roots, and the boundary search asked about single paths. *)

InitRoots ==
    /\ markers \in RootMarkerSets
    /\ files \in DiskFileSets
    /\ workspaceRootPath = <<>>
    /\ projects = <<>>
    /\ heap = EmptyMap
    /\ loaded = 0
    /\ nEvents = 0
    /\ last = [op |-> "none"]

LoadAnyRoot ==
    /\ loaded = 0
    /\ LoadWorkspaceFrom(RootUris)

FindProjectFolder ==
    /\ loaded = 1
    /\ \E p \in SearchPaths :
         last' = [op |-> "findProjectFolder", uri |-> Uri(p),
                  result |-> findProjectFolder(Uri(p)),
                  checked |-> searchedDirs(Uri(p))]
    /\ UNCHANGED <<workspaceRootPath, projects, heap, loaded, nEvents>>
    /\ Frame

NextRoots ==
    \/ LoadAnyRoot
    \/ FindProjectFolder

SpecRoots == InitRoots /\ [][NextRoots]_vars

(* A workspace that is loaded a second time, on the same tree. *)

LoadWorkspaceAgain ==
    /\ loaded = 1
    /\ LoadWorkspaceFrom(WorkspaceUris)

NextReload ==
    \/ LoadWorkspace
    \/ LoadWorkspaceAgain

SpecReload == Init /\ [][NextReload]_vars

----------------------------------------------------------------------------
(* Vocabulary of the properties. *)

\* The map entries <<project, key>> that refer to document d.
EntriesOf(S, d) ==
    UNION { { <<i, k>> : k \in {x \in DOMAIN S.projects[i].documents :
                                   S.projects[i].documents[x] = d} }
            : i \in 1..Len(S.projects) }

\* The projects whose map has the key.
ProjectsWithKey(S, path) ==
    {i \in 1..Len(S.projects) : path \in DOMAIN S.projects[i].documents}

\* The nearest ancestor directory of f, up to the workspace root, that contains a
\* marker file; NoFolder when there is none.
MarkedAncestors(f) ==
    {d \in markers : (d = workspaceRootPath \/ IsUnder(d, workspaceRootPath)) /\ IsUnder(f, d)}

NearestMarker(f) ==
    IF MarkedAncestors(f) = {} THEN NoFolder
    ELSE CHOOSE d \in MarkedAncestors(f) : \A e \in MarkedAncestors(f) : Len(e) <= Len(d)

\* The last call was renameFiles with the single pair (LastOld, LastNew).
LastIsRename == last.op = "renameFiles" /\ Len(last.renames) = 1
LastOld == uriToPathString(last.renames[1][1])
LastNew == uriToPathString(last.renames[1][2])

----------------------------------------------------------------------------
(* The properties. *)

\* C1: after a single loadWorkspace and any following events, every tracked Document
\* instance is referenced by exactly one entry of exactly one Project's map.
C1_OneEntryPerDocument ==
    loaded = 1 => \A d \in DOMAIN heap : Cardinality(EntriesOf(State, d)) = 1

\* C2: after renameFiles([(A,B)]) of a tracked source path A to a different source
\* path B, no Project's map contains the key A.
C2_OldKeyRemoved ==
    (/\ LastIsRename
     /\ endsWithWoo(LastOld) /\ endsWithWoo(LastNew)
     /\ LastOld # LastNew
     /\ last.found[1] # Null)
    => ProjectsWithKey(State, LastOld) = {}

\* C3: after loadWorkspace every source file under the root is a key of exactly one
\* Project's map, and that Project is the one of the nearest ancestor directory with
\* a marker file, or the orphan Project when there is none.
C3_LoadAssignsNearestMarker ==
    last.op = "loadWorkspace" =>
        \A f \in findAllWooFiles(workspaceRootPath, files) :
            /\ Cardinality(ProjectsWithKey(State, f)) = 1
            /\ \A i \in ProjectsWithKey(State, f) :
                   projects[i].projectFolderPath = NearestMarker(f)

\* The state after the step, and the arguments of the call made by the step.
Post == [projects |-> projects', heap |-> heap']
StepIsRename == nEvents' = nEvents + 1 /\ last'.op = "renameFiles" /\ Len(last'.renames) = 1
StepOld == uriToPathString(last'.renames[1][1])
StepNew == uriToPathString(last'.renames[1][2])
StepIsDelete == nEvents' = nEvents + 1 /\ last'.op = "didDeleteFiles" /\ Len(last'.uris) = 1
StepDeleted == uriToPathString(last'.uris[1])

\* The documents of project i.
DocumentsOf(S, i) == {S.projects[i].documents[k] : k \in DOMAIN S.projects[i].documents}

\* C4: a rename of a tracked source document owned by Project P1 to a source path
\* whose nearest marker-bearing ancestor is the folder of another loaded Project P2
\* leaves the document owned by P2, at the new path, and in no entry of P1's map.
C4_CrossProjectRename ==
    [][ (/\ StepIsRename
         /\ endsWithWoo(StepOld) /\ endsWithWoo(StepNew)
         /\ getDocument(State, StepOld) # Null
         /\ NearestMarker(StepNew) # NoFolder
         /\ getProject(State, NearestMarker(StepNew)) # Null
         /\ getProjectByDocument(State, getDocument(State, StepOld))
                # getProject(State, NearestMarker(StepNew)))
        => LET d  == getDocument(State, StepOld)
               p1 == getProjectByDocument(State, d)
               p2 == getProject(State, NearestMarker(StepNew))
           IN /\ d \in DOMAIN heap'
              /\ getProjectByDocument(Post, d) = p2
              /\ P_getDocument(Post.projects[p2], StepNew) = d
              /\ d \notin DocumentsOf(Post, p1) ]_vars

\* C5: after renameFiles([(A,B)]) of a tracked source path A to a source path B,
\* getDocument(B) is the Document instance that getDocument(A) was before the call,
\* with the source text it had and with B as its stored path.
C5_RenameKeepsInstance ==
    [][ (/\ StepIsRename
         /\ endsWithWoo(StepOld) /\ endsWithWoo(StepNew)
         /\ getDocument(State, StepOld) # Null)
        => LET d == getDocument(State, StepOld)
           IN /\ getDocument(Post, StepNew) = d
              /\ d \in DOMAIN heap'
              /\ heap'[d].source = heap[d].source
              /\ heap'[d].documentPath = StepNew ]_vars

\* C6: after renameFiles([(A,B)]) of a source path A at which getDocument finds a
\* document to a non-source path B, getDocument(A) and getDocument(B) find nothing
\* and no Project's map refers to the document.
C6_RenameToNonSourceUntracks ==
    (/\ LastIsRename
     /\ endsWithWoo(LastOld) /\ ~endsWithWoo(LastNew)
     /\ last.found[1] # Null)
    => /\ getDocument(State, LastOld) = Null
       /\ getDocument(State, LastNew) = Null
       /\ EntriesOf(State, last.found[1]) = {}

\* C7: after didDeleteFiles of a uri at which getDocumentByUri finds a document, the
\* lookup of the uri finds nothing, no Project's map refers to the document, and
\* the entries at other paths are as they were.
C7_DeleteRemovesDocument ==
    [][ (/\ StepIsDelete
         /\ getDocument(State, StepDeleted) # Null)
        => LET d == getDocument(State, StepDeleted)
           IN /\ getDocumentByUri(Post, last'.uris[1]) = Null
              /\ EntriesOf(Post, d) = {}
              /\ \A i \in 1..Len(projects) :
                   \A k \in DOMAIN projects[i].documents \ {StepDeleted} :
                       /\ k \in DOMAIN projects'[i].documents
                       /\ projects'[i].documents[k] = projects[i].documents[k]
                       /\ heap'[projects[i].documents[k]] = heap[projects[i].documents[k]] ]_vars

\* The step is a documentDidChange call.
StepIsChange == nEvents' = nEvents + 1 /\ last'.op = "documentDidChange"
StepIsOpen == nEvents' = nEvents + 1 /\ last'.op = "openDocument"

\* C8: documentDidChange, didDeleteFiles and renameFiles on a path that no Project's
\* map contains leave the project set, every map and every document unchanged, also
\* before any workspace is loaded.
C8_UnknownPathNoOp ==
    [][ (\/ StepIsChange /\ ProjectsWithKey(State, uriToPathString(last'.uri)) = {}
         \/ StepIsDelete /\ ProjectsWithKey(State, StepDeleted) = {}
         \/ StepIsRename /\ ProjectsWithKey(State, StepOld) = {})
        => /\ projects' = projects
           /\ heap' = heap
           /\ workspaceRootPath' = workspaceRootPath ]_vars

\* A rename of an untracked source path has been processed in a loaded workspace.
C8_Witness ==
    /\ loaded = 1 /\ heap # EmptyMap
    /\ LastIsRename
    /\ endsWithWoo(LastOld) /\ endsWithWoo(LastNew)
    /\ last.found[1] = Null
    /\ ProjectsWithKey(State, LastOld) = {}

\* The Project openDocument would load the path into.
OpenTarget(S, path) ==
    LET found == getProject(S, findProjectFolder(Uri(path)))
    IN IF found = Null THEN getProject(S, NoFolder) ELSE found

\* C9: after loadWorkspace the Projects that hold a source file under the root are
\* exactly the one Project openDocument would place the path in.
C9_BulkScanAgreesWithSearch ==
    last.op = "loadWorkspace" =>
        \A f \in findAllWooFiles(workspaceRootPath, files) :
            ProjectsWithKey(State, f) = {OpenTarget(State, f)}

\* The directories under the workspace root (the root included) with a marker file.
MarkerDirs == {d \in markers : d = workspaceRootPath \/ IsUnder(d, workspaceRootPath)}

ProjectsWithFolder(path) == {i \in 1..Len(projects) : projects[i].projectFolderPath = path}

Folders == [i \in 1..Len(projects) |-> projects[i].projectFolderPath]

\* The path lies in the folder of no loaded Project.
Unclaimed(path) ==
    \A i \in 1..Len(projects) :
        projects[i].projectFolderPath = NoFolder \/ ~IsUnder(path, projects[i].projectFolderPath)

\* After the step the orphan Project holds, at the key path, a document of that path.
InOrphanAfter(path) ==
    LET o == getProject(State, NoFolder)
    IN /\ path \in DOMAIN projects'[o].documents
       /\ heap'[projects'[o].documents[path]].documentPath = path

\* C10: after a single loadWorkspace there is exactly one Project per directory with
\* a marker file and exactly one Project without a folder, no two with the same
\* folder; later events leave this set unchanged, and a rename or open to a path in
\* no loaded Project's folder puts the document in the orphan Project.
C10_ProjectSetFixed ==
    /\ [](loaded = 1 =>
            /\ Len(projects) = Cardinality(MarkerDirs) + 1
            /\ \A d \in MarkerDirs \cup {NoFolder} : Cardinality(ProjectsWithFolder(d)) = 1)
    /\ [][loaded = 1 => Folders' = Folders]_vars
    /\ [][ (/\ loaded = 1
            /\ \/ /\ StepIsOpen
                  /\ getDocument(State, uriToPathString(last'.uri)) = Null
                  /\ Unclaimed(uriToPathString(last'.uri))
               \/ /\ StepIsRename
                  /\ endsWithWoo(StepOld) /\ endsWithWoo(StepNew)
                  /\ getDocument(State, StepOld) # Null
                  /\ Unclaimed(StepNew))
           => IF StepIsOpen THEN InOrphanAfter(uriToPathString(last'.uri))
                            ELSE InOrphanAfter(StepNew) ]_vars

\* The project set holds the empty orphan Project and nothing else.
OnlyEmptyOrphan ==
    projects = << [projectFolderPath |-> NoFolder, documents |-> EmptyMap] >>

\* C11: loadWorkspace on a root that does not exist completes without a fatal
\* failure and leaves only the empty orphan Project.
C11_MissingRootLoadsEmpty ==
    (last.op = "loadWorkspace" /\ uriToPathString(last.uri) \notin Directories)
    => ~last.threw /\ OnlyEmptyOrphan

\* The step is a renameFiles call, with any list of pairs.
StepIsRenameCall == nEvents' = nEvents + 1 /\ last'.op = "renameFiles"

\* The pair is a rename between source paths whose old path getDocument finds in S.
RecordedIn(S, pair) ==
    /\ endsWithWoo(uriToPathString(pair[1])) /\ endsWithWoo(uriToPathString(pair[2]))
    /\ getDocument(S, uriToPathString(pair[1])) # Null

\* The runs of the loop over the pairs: the state each can end in, with the pairs
\* that are renames between source paths of a path tracked when the pair is reached.
RECURSIVE TrackedRenames(_, _)
TrackedRenames(S, renames) ==
    IF renames = <<>> THEN { [S |-> S, list |-> <<>>] }
    ELSE UNION { { [S |-> rest.S,
                    list |-> (IF RecordedIn(S, Head(renames))
                              THEN << <<uriToPathString(Head(renames)[1]),
                                        uriToPathString(Head(renames)[2])>> >>
                              ELSE <<>>) \o rest.list]
                   : rest \in TrackedRenames(first.S, Tail(renames)) }
                 : first \in renamePair(S, Head(renames)[1], Head(renames)[2]) }

\* C12: one renameFiles call invokes the reference-rewrite collaborator exactly once,
\* after the mutations of every pair, with exactly the pairs of the renames between
\* source paths whose old path was tracked, in input order.
C12_RewriteOnceAfterMutations ==
    [][ StepIsRenameCall
        => /\ Len(last'.calls) = 1
           /\ last'.calls[1].projects = projects'
           /\ last'.calls[1].heap = heap'
           /\ \E run \in TrackedRenames(State, last'.renames) :
                 /\ run.S = Post
                 /\ run.list = last'.calls[1].renamedDocuments ]_vars

\* A call with two pairs has recorded both, the second being the rename of the
\* path the first one made tracked.
C12_Witness ==
    /\ last.op = "renameFiles"
    /\ Len(last.renames) = 2
    /\ Len(last.calls[1].renamedDocuments) = 2
    /\ last.renames[1] # last.renames[2]
    /\ last.found[2] = Null

\* The last call was findProjectFolder, asked about the path SearchedPath.
LastIsSearch == last.op = "findProjectFolder"
SearchedPath == uriToPathString(last.uri)

\* C13: for a path under the workspace root, findProjectFolder returns the nearest
\* directory with a marker file among the directories from the path's parent up to
\* and including the workspace root, and none when there is no such directory.
C13_NearestMarkerUpToRoot ==
    (LastIsSearch /\ IsUnder(SearchedPath, workspaceRootPath))
    => last.result = NearestMarker(SearchedPath)

\* The directory is the workspace root's parent or an ancestor of that parent.
AboveRoot(d) ==
    /\ parent_path(workspaceRootPath) # workspaceRootPath
    /\ (d = parent_path(workspaceRootPath) \/ IsUnder(parent_path(workspaceRootPath), d))

\* C14: for any path, under the workspace root or not, the upward search neither
\* tests for a marker in, nor returns, the workspace root's parent or an ancestor
\* of that parent.
C14_SearchStaysBelowRootParent ==
    LastIsSearch
    => /\ \A d \in last.checked : ~AboveRoot(d)
       /\ last.result # NoFolder => ~AboveRoot(last.result)

\* The path opened by the step, and what openDocument does with it: nothing when
\* getDocument finds it, and otherwise one new Document, with the text on disk, at
\* one new key of the Project that findProjectFolder selects (or of the orphan).
StepOpened == uriToPathString(last'.uri)

OpenKeepsOrAddsOne ==
    /\ getDocument(State, StepOpened) # Null => Post = State
    /\ getDocument(State, StepOpened) = Null =>
         /\ OpenTarget(State, StepOpened) # Null
         /\ \E d \in DOMAIN heap' \ DOMAIN heap :
              /\ DOMAIN heap' = DOMAIN heap \cup {d}
              /\ \A e \in DOMAIN heap : heap'[e] = heap[e]
              /\ heap'[d] = [documentPath |-> StepOpened, source |-> DiskSource]
              /\ projects' = [projects EXCEPT ![OpenTarget(State, StepOpened)].documents =
                                 MapPut(@, StepOpened, d)]
    /\ openDocument(Post, last'.uri) = {Post}

\* C15 as stated: in every state, openDocument changes nothing on a path getDocument
\* finds, creates exactly one new entry on an unseen path, and a second open of the
\* same path changes nothing.
C15_OpenIdempotent == [][ StepIsOpen => OpenKeepsOrAddsOne ]_vars

\* C15, for a loaded workspace: once loadWorkspace has completed, openDocument
\* changes nothing on a path getDocument finds, creates exactly one new entry on an
\* unseen path, and a second open of the same path changes nothing.
C15_OpenIdempotentAfterLoad == [][ (StepIsOpen /\ loaded >= 1) => OpenKeepsOrAddsOne ]_vars

\* After load, the open of an unseen path has made it tracked.
C15_Witness ==
    /\ last.op = "openDocument"
    /\ loaded = 1
    /\ last.found = Null
    /\ getDocument(State, uriToPathString(last.uri)) # Null

\* C16: documentDidChange on a tracked path replaces the text of the existing
\* Document in place: the project set and every map entry are unchanged, the same
\* Document instance stays at its key, and no other document's text changes.
C16_ChangeInPlace ==
    [][ (StepIsChange /\ getDocument(State, uriToPathString(last'.uri)) # Null)
        => /\ projects' = projects
           /\ DOMAIN heap' = DOMAIN heap
           /\ \A d \in DOMAIN heap :
                heap'[d] = IF d = getDocument(State, uriToPathString(last'.uri))
                           THEN [heap[d] EXCEPT !.source = last'.source]
                           ELSE heap[d] ]_vars

\* A tracked document has been edited and holds the new text.
C16_Witness ==
    /\ last.op = "documentDidChange"
    /\ last.found # Null
    /\ last.found \in DOMAIN heap
    /\ heap[last.found].source = last.source
    /\ last.source # DiskSource

\* C17: after loadWorkspace is called a second time on the same tree there is exactly
\* one orphan Project, at most one Project per folder, and every source file under
\* the root is in exactly one Project's map.
C17_ReloadResets ==
    (last.op = "loadWorkspace" /\ loaded = 2)
    => /\ Cardinality(ProjectsWithFolder(NoFolder)) = 1
       /\ \A d \in Directories : Cardinality(ProjectsWithFolder(d)) <= 1
       /\ \A f \in findAllWooFiles(workspaceRootPath, files) :
            Cardinality(ProjectsWithKey(State, f)) = 1

\* C18: in every reachable state each entry (key, document) of every Project's map
\* has key = the document's stored path, so that the lookup by key and the lookup
\* by path equality find the same entry.
C18_KeyIsStoredPath ==
    \A i \in 1..Len(projects) : \A k \in DOMAIN projects[i].documents :
        heap[projects[i].documents[k]].documentPath = k

\* C19: in every reachable state every key of every Project's map is a path with
\* the source extension.
C19_OnlySourcePathsTracked ==
    \A i \in 1..Len(projects) : \A k \in DOMAIN projects[i].documents : endsWithWoo(k)

====
